---- MODULE Spec2Model ----
(***************************************************************************)
(* Model of analysis/omnetpp_analysis.py: the OMNeT++ log parser           *)
(* (OMNetPPLogParser.parse), the report of ComparisonAnalyzer and main.    *)
(*                                                                         *)
(* A log line is the sequence, in text order, of the occurrences it holds  *)
(* of the shapes the parser searches for.  An occurrence is a record       *)
(* [k, n, w]: k names the shape, n is the number its (\d+) group captures, *)
(* w the word its (\w+) group captures.  re.search returns the leftmost    *)
(* match, which is the first occurrence of that shape in the line.         *)
(***************************************************************************)
EXTENDS Integers, Sequences, FiniteSets, TLC

VARIABLES
    argc,               \* len(sys.argv)
    files,              \* the two files named by sys.argv[1], sys.argv[2]
    viz,                \* charting: "absent", "ok" or "raises"
    pc,                 \* position of main
    which,              \* the file being parsed: 1 (arbitrary), 2 (anonymous)
    lines,              \* parse: f.readlines()
    idx,                \* parse: position of the node-statistics loop
    algorithm_name,     \* parse: self.algorithm_name
    total_events,       \* parse: local total_events
    round_details,      \* parse: local round_details
    node_stats,         \* parse: local node_stats
    in_finish_section,  \* parse: local in_finish_section
    current_stats,      \* parse: local current_stats, <<>> is None
    metrics,            \* main: <<arbitrary_metrics, anonymous_metrics>>
    report,             \* what print_summary printed, <<>> before
    chart,              \* what generate_visualizations returned
    exit_status         \* -1 while running, else the process exit status

vars == <<argc, files, viz, pc, which, lines, idx, algorithm_name,
          total_events, round_details, node_stats, in_finish_section,
          current_stats, metrics, report, chart, exit_status>>

parseVars == <<lines, idx, algorithm_name, total_events, round_details,
               node_stats, in_finish_section, current_stats>>

(***************************************************************************)
(* Bounds of the model.                                                    *)
(***************************************************************************)
\* the longest log of the general and of the event family
MaxLen == 4

\* the most node sections of a log of the section family
MaxSections == 2

\* the largest number a line of the event and of the flag family carries
MaxNum == 2

(***************************************************************************)
(* Lines.                                                                  *)
(***************************************************************************)
Tok(k, n, w) == [k |-> k, n |-> n, w |-> w]

Event(n)       == Tok("Event #", n, "")
RoundMention(n) == Tok("round ", n, "")
Info           == Tok("INFO:", 0, "")
Finish         == Tok("Calling finish() methods", 0, "")
NodeStart(n)   == Tok("Node statistics:", n, "")
MessagesSent(n) == Tok("Messages Sent: ", n, "")
RoundsCompleted(n) == Tok("Rounds Completed: ", n, "")
FinalState(w)  == Tok("Final State: ", 0, w)
IsLeader(w)    == Tok("Is Leader: ", 0, w)
FinalLeader(n) == Tok("Final Leader: ", n, "")
Arbitrary      == Tok("Arbitrary", 0, "")
Anonymous      == Tok("Anonymous", 0, "")
Space          == Tok(" ", 0, "")
\* the same texts in other letter cases
RoundUpper(n)  == Tok("Round ", n, "")
InfoLower      == Tok("info:", 0, "")

\* re.search(pattern, line): the occurrences of shape k in the line, leftmost
\* first; the match object is truthy iff there is one, group(1) is the
\* capture of the leftmost.
search(k, line) == SelectSeq(line, LAMBDA t : t.k = k)

\* "text" in line
contains(k, line) == \E i \in 1..Len(line) : line[i].k = k

(***************************************************************************)
(* parse: algorithm name, lines 65-71.  Only evaluated on a non-empty      *)
(* list; lines[0] of an empty list raises IndexError (see ParseOpen).      *)
(***************************************************************************)
AlgorithmName(ls) ==
    IF contains("Arbitrary", ls[1]) THEN "Arbitrary Election"
    ELSE IF contains("Anonymous", ls[1]) THEN "Anonymous Election"
    ELSE "Unknown"

Max(a, b) == IF a >= b THEN a ELSE b

SetMax(S) == CHOOSE x \in S : \A y \in S : y <= x
SetMin(S) == CHOOSE x \in S : \A y \in S : x <= y

(***************************************************************************)
(* parse: the event loop, lines 73-78.                                     *)
(***************************************************************************)
\* EventStep that keeps the last number, not the highest
EventStep_Last(acc, line) ==
    LET event_match == search("Event #", line)
    IN  IF event_match # <<>> THEN event_match[1].n ELSE acc

\* lines 76-78, one iteration
EventStep(acc, line) ==
    LET event_match == search("Event #", line)
    IN  IF event_match # <<>> THEN Max(acc, event_match[1].n) ELSE acc

RECURSIVE EventLoop(_, _)
EventLoop(acc, ls) ==
    IF ls = <<>> THEN acc
    ELSE EventLoop(EventStep(acc, Head(ls)), Tail(ls))

(***************************************************************************)
(* parse: the round-details loop, lines 80-86.                             *)
(***************************************************************************)
\* line.strip(): the line without its leading and trailing white space
strip(line) ==
    LET text == {i \in 1..Len(line) : line[i].k # " "}
    IN  IF text = {} THEN <<>> ELSE SubSeq(line, SetMin(text), SetMax(text))

\* line.lower(), for the shapes the loop looks at: upper-case round
\* mentions become lower-case ones, the marker INFO: becomes info:
lower(line) ==
    [i \in 1..Len(line) |->
        IF line[i].k = "Round " THEN [line[i] EXCEPT !.k = "round "]
        ELSE IF line[i].k = "INFO:" THEN [line[i] EXCEPT !.k = "info:"]
        ELSE line[i]]

\* the iteration that files the line under the last round it mentions
RoundStep_LastMention(acc, line) ==
    LET round_match == search("round ", lower(line))
    IN  IF round_match # <<>> /\ contains("INFO:", line)
        THEN LET round_num == round_match[Len(round_match)].n
                 old == IF round_num \in DOMAIN acc THEN acc[round_num] ELSE <<>>
             IN  [r \in DOMAIN acc \cup {round_num} |->
                    IF r = round_num THEN Append(old, strip(line)) ELSE acc[r]]
        ELSE acc

\* lines 83-86, one iteration
RoundStep(acc, line) ==
    LET round_match == search("round ", lower(line))
    IN  IF round_match # <<>> /\ contains("INFO:", line)
        THEN LET round_num == round_match[1].n
                 old == IF round_num \in DOMAIN acc THEN acc[round_num] ELSE <<>>
             IN  [r \in DOMAIN acc \cup {round_num} |->
                    IF r = round_num THEN Append(old, strip(line)) ELSE acc[r]]
        ELSE acc

RECURSIVE RoundLoop(_, _)
RoundLoop(acc, ls) ==
    IF ls = <<>> THEN acc
    ELSE RoundLoop(RoundStep(acc, Head(ls)), Tail(ls))

(***************************************************************************)
(* parse: the node-statistics loop, lines 88-153.                          *)
(***************************************************************************)
\* lines 107-113
NewStats(id) ==
    [node_id |-> id, messages_sent |-> 0, rounds_completed |-> 0,
     final_state |-> "", is_leader |-> FALSE]

\* Retained without the messages_sent > 0 test
Retained_AnyRecord(cs) == cs # <<>>

\* the retention test of lines 104 and 156: current_stats and messages_sent > 0
Retained(cs) == cs # <<>> /\ cs[1].messages_sent > 0

\* lines 104-105 and 156-157
Finalize(ns, cs) == IF Retained(cs) THEN Append(ns, cs[1]) ELSE ns

\* ApplyMessagesSent that builds the record anew
ApplyMessagesSent_Fresh(c, n) == [NewStats(c.node_id) EXCEPT !.messages_sent = n]

\* lines 120-123
ApplyMessagesSent(c, n) == [c EXCEPT !.messages_sent = n]

\* lines 126-129
ApplyRoundsCompleted(c, n) == [c EXCEPT !.rounds_completed = n]

\* lines 132-136
ApplyFinalState(c, w) ==
    [c EXCEPT !.final_state = w, !.is_leader = (w = "LEADER")]

\* an Is Leader line that sets the flag and leaves the state label alone
ApplyIsLeader_FlagOnly(c, w) ==
    [c EXCEPT !.is_leader = (w = "YES")]

\* lines 139-143
ApplyIsLeader(c, w) ==
    [c EXCEPT !.is_leader = (w = "YES"),
              !.final_state = IF w = "YES" THEN "LEADER" ELSE "NON_LEADER"]

\* ApplyFinalLeader without the test of line 149
ApplyFinalLeader_Unguarded(c, n) ==
    [c EXCEPT !.is_leader = (n = c.node_id),
              !.final_state = IF n = c.node_id THEN "LEADER" ELSE "NON_LEADER"]

\* lines 146-153
ApplyFinalLeader(c, n) ==
    IF c.final_state = ""
    THEN [c EXCEPT !.is_leader = (n = c.node_id),
                   !.final_state = IF n = c.node_id THEN "LEADER" ELSE "NON_LEADER"]
    ELSE c

\* a node-start that drops the record in progress instead of finalizing it
StartSection_NoFinalize(s, id) ==
    [s EXCEPT !.cs = <<NewStats(id)>>]

\* StartSection that resets the counters of the record only
StartSection_KeepState(s, id) ==
    [s EXCEPT !.ns = Finalize(s.ns, s.cs),
              !.cs = IF s.cs = <<>> THEN <<NewStats(id)>>
                     ELSE <<[s.cs[1] EXCEPT !.node_id = id, !.messages_sent = 0,
                                            !.rounds_completed = 0]>>]

\* lines 103-114, on the loop's state s = [fin, cs, ns]
StartSection(s, id) ==
    [s EXCEPT !.ns = Finalize(s.ns, s.cs), !.cs = <<NewStats(id)>>]

\* the tests without the test of in_finish_section of line 99
Recognizer_NoSection(fin, cs, line) ==
    IF contains("Calling finish() methods", line) THEN "finish"
    ELSE IF search("Node statistics:", line) # <<>> THEN "node_start"
    ELSE IF cs = <<>> THEN "none"
    ELSE IF search("Messages Sent: ", line) # <<>> THEN "msg"
    ELSE IF search("Rounds Completed: ", line) # <<>> THEN "rounds"
    ELSE IF search("Final State: ", line) # <<>> THEN "state"
    ELSE IF search("Is Leader: ", line) # <<>> THEN "leader"
    ELSE IF search("Final Leader: ", line) # <<>> THEN "final_leader"
    ELSE "none"

\* the tests with Rounds Completed tried before Messages Sent
Recognizer_RoundsFirst(fin, cs, line) ==
    IF contains("Calling finish() methods", line) THEN "finish"
    ELSE IF ~fin THEN "none"
    ELSE IF search("Node statistics:", line) # <<>> THEN "node_start"
    ELSE IF cs = <<>> THEN "none"
    ELSE IF search("Rounds Completed: ", line) # <<>> THEN "rounds"
    ELSE IF search("Messages Sent: ", line) # <<>> THEN "msg"
    ELSE IF search("Final State: ", line) # <<>> THEN "state"
    ELSE IF search("Is Leader: ", line) # <<>> THEN "leader"
    ELSE IF search("Final Leader: ", line) # <<>> THEN "final_leader"
    ELSE "none"

\* The recognizer that consumes a line of the loop, from the order of the
\* tests of lines 95-153 ("none": the line changes nothing).
Recognizer(fin, cs, line) ==
    IF contains("Calling finish() methods", line) THEN "finish"
    ELSE IF ~fin THEN "none"
    ELSE IF search("Node statistics:", line) # <<>> THEN "node_start"
    ELSE IF cs = <<>> THEN "none"
    ELSE IF search("Messages Sent: ", line) # <<>> THEN "msg"
    ELSE IF search("Rounds Completed: ", line) # <<>> THEN "rounds"
    ELSE IF search("Final State: ", line) # <<>> THEN "state"
    ELSE IF search("Is Leader: ", line) # <<>> THEN "leader"
    ELSE IF search("Final Leader: ", line) # <<>> THEN "final_leader"
    ELSE "none"

\* the iteration whose marker line switches the mode instead of setting it
NodeStatsStep_Toggle(s, line) ==
    LET r == Recognizer(s.fin, s.cs, line)
    IN  CASE r = "finish" -> [s EXCEPT !.fin = ~s.fin]
          [] r = "node_start" ->
                StartSection(s, search("Node statistics:", line)[1].n)
          [] r = "msg" ->
                [s EXCEPT !.cs = <<ApplyMessagesSent(s.cs[1],
                                     search("Messages Sent: ", line)[1].n)>>]
          [] r = "rounds" ->
                [s EXCEPT !.cs = <<ApplyRoundsCompleted(s.cs[1],
                                     search("Rounds Completed: ", line)[1].n)>>]
          [] r = "state" ->
                [s EXCEPT !.cs = <<ApplyFinalState(s.cs[1],
                                     search("Final State: ", line)[1].w)>>]
          [] r = "leader" ->
                [s EXCEPT !.cs = <<ApplyIsLeader(s.cs[1],
                                     search("Is Leader: ", line)[1].w)>>]
          [] r = "final_leader" ->
                [s EXCEPT !.cs = <<ApplyFinalLeader(s.cs[1],
                                     search("Final Leader: ", line)[1].n)>>]
          [] OTHER -> s

\* One iteration of the loop of line 93 on the loop's state
\* s = [fin, cs, ns] (in_finish_section, current_stats, node_stats).
NodeStatsStep(s, line) ==
    LET r == Recognizer(s.fin, s.cs, line)
    IN  CASE r = "finish" -> [s EXCEPT !.fin = TRUE]
          [] r = "node_start" ->
                StartSection(s, search("Node statistics:", line)[1].n)
          [] r = "msg" ->
                [s EXCEPT !.cs = <<ApplyMessagesSent(s.cs[1],
                                     search("Messages Sent: ", line)[1].n)>>]
          [] r = "rounds" ->
                [s EXCEPT !.cs = <<ApplyRoundsCompleted(s.cs[1],
                                     search("Rounds Completed: ", line)[1].n)>>]
          [] r = "state" ->
                [s EXCEPT !.cs = <<ApplyFinalState(s.cs[1],
                                     search("Final State: ", line)[1].w)>>]
          [] r = "leader" ->
                [s EXCEPT !.cs = <<ApplyIsLeader(s.cs[1],
                                     search("Is Leader: ", line)[1].w)>>]
          [] r = "final_leader" ->
                [s EXCEPT !.cs = <<ApplyFinalLeader(s.cs[1],
                                     search("Final Leader: ", line)[1].n)>>]
          [] OTHER -> s

\* The loop of line 93 run over the lines ls from the loop state s.
RECURSIVE LoopFrom(_, _)
LoopFrom(s, ls) ==
    IF ls = <<>> THEN s ELSE LoopFrom(NodeStatsStep(s, Head(ls)), Tail(ls))

(***************************************************************************)
(* parse: the aggregates, lines 159-178.                                   *)
(***************************************************************************)
\* FindLeader without the break of line 164
RECURSIVE FindLeader_NoBreak(_)
FindLeader_NoBreak(ns) ==
    IF ns = <<>> THEN -1
    ELSE LET later == FindLeader_NoBreak(Tail(ns))
         IN  IF later # -1 THEN later
             ELSE IF Head(ns).is_leader THEN Head(ns).node_id ELSE -1

\* lines 160-164
RECURSIVE FindLeader(_)
FindLeader(ns) ==
    IF ns = <<>> THEN -1
    ELSE IF Head(ns).is_leader THEN Head(ns).node_id
    ELSE FindLeader(Tail(ns))

\* SumMessages over the wrong field
RECURSIVE SumMessages_Rounds(_)
SumMessages_Rounds(ns) ==
    IF ns = <<>> THEN 0
    ELSE Head(ns).rounds_completed + SumMessages_Rounds(Tail(ns))

\* line 167
RECURSIVE SumMessages(_)
SumMessages(ns) ==
    IF ns = <<>> THEN 0 ELSE Head(ns).messages_sent + SumMessages(Tail(ns))

\* the rounds of the last record instead of the highest
MaxRounds_Last(ns) ==
    IF ns = <<>> THEN 0 ELSE ns[Len(ns)].rounds_completed

\* line 168
RECURSIVE MaxRounds(_)
MaxRounds(ns) ==
    IF ns = <<>> THEN 0
    ELSE IF Tail(ns) = <<>> THEN Head(ns).rounds_completed
    ELSE Max(Head(ns).rounds_completed, MaxRounds(Tail(ns)))

\* lines 170-178
AlgorithmMetrics(name, ns, events, rounds) ==
    [algorithm_name |-> name,
     total_messages |-> SumMessages(ns),
     total_rounds   |-> MaxRounds(ns),
     leader_id      |-> FindLeader(ns),
     node_stats     |-> ns,
     total_events   |-> events,
     round_details  |-> rounds]

(***************************************************************************)
(* print_summary, lines 188-303: the leaders and totals of lines 198-219   *)
(* and the per-node table of lines 239-253.                                *)
(***************************************************************************)
\* next((s for s in node_stats if s.node_id == i), None), lines 241-242
RECURSIVE Lookup(_, _)
Lookup(ns, i) ==
    IF ns = <<>> THEN <<>>
    ELSE IF Head(ns).node_id = i THEN <<Head(ns)>>
    ELSE Lookup(Tail(ns), i)

\* lines 241-253, one row of the table
Row(arb, anon, i) ==
    LET arb_stat  == Lookup(arb.node_stats, i)
        anon_stat == Lookup(anon.node_stats, i)
    IN  [node        |-> i,
         arb_msg     |-> IF arb_stat # <<>> THEN arb_stat[1].messages_sent ELSE 0,
         anon_msg    |-> IF anon_stat # <<>> THEN anon_stat[1].messages_sent ELSE 0,
         arb_rounds  |-> IF arb_stat # <<>> THEN arb_stat[1].rounds_completed ELSE 0,
         anon_rounds |-> IF anon_stat # <<>> THEN anon_stat[1].rounds_completed ELSE 0,
         arb_state   |-> IF arb_stat # <<>> THEN arb_stat[1].final_state ELSE "N/A",
         anon_state  |-> IF anon_stat # <<>> THEN anon_stat[1].final_state ELSE "N/A",
         leader_marker |-> \/ (arb_stat # <<>> /\ arb_stat[1].is_leader)
                           \/ (anon_stat # <<>> /\ anon_stat[1].is_leader)]

Summary(arb, anon) ==
    LET num_nodes == Max(Len(arb.node_stats), Len(anon.node_stats))
    IN  [leaders  |-> <<arb.leader_id, anon.leader_id>>,
         messages |-> <<arb.total_messages, anon.total_messages>>,
         rounds   |-> <<arb.total_rounds, anon.total_rounds>>,
         events   |-> <<arb.total_events, anon.total_events>>,
         rows     |-> [i \in 1..num_nodes |-> Row(arb, anon, i - 1)]]

(***************************************************************************)
(* The actions: main (lines 430-470) and the steps of parse it calls.      *)
(***************************************************************************)
NoParse ==
    /\ lines = <<>>
    /\ idx = 0
    /\ algorithm_name = ""
    /\ total_events = 0
    /\ round_details = <<>>
    /\ node_stats = <<>>
    /\ in_finish_section = FALSE
    /\ current_stats = <<>>

\* lines 432-440
MainArgs ==
    /\ pc = "main"
    /\ IF argc # 3
       THEN pc' = "exit" /\ exit_status' = 1 /\ which' = which
       ELSE pc' = "parse" /\ which' = 1 /\ exit_status' = exit_status
    /\ UNCHANGED <<argc, files, viz, metrics, report, chart>>
    /\ UNCHANGED parseVars

\* a parse that goes on from what the previous parse left instead of
\* starting its loops afresh
ParseOpen_Carry ==
    /\ pc = "parse"
    /\ LET f == files[which]
       IN  IF ~f.exists
           THEN pc' = "FileNotFoundError" /\ UNCHANGED parseVars
           ELSE IF f.lines = <<>>
           THEN pc' = "Exception" /\ UNCHANGED parseVars
           ELSE /\ pc' = "scan"
                /\ lines' = f.lines
                /\ algorithm_name' = AlgorithmName(f.lines)
                /\ total_events' = EventLoop(total_events, f.lines)
                /\ round_details' = RoundLoop(round_details, f.lines)
                /\ node_stats' = node_stats
                /\ in_finish_section' = in_finish_section
                /\ current_stats' = current_stats
                /\ idx' = 1
    /\ UNCHANGED <<argc, files, viz, which, metrics, report, chart, exit_status>>

\* lines 444/447 and 62-91: open and read the file, name the algorithm, run
\* the event loop and the round loop, set up the node-statistics loop.
ParseOpen ==
    /\ pc = "parse"
    /\ LET f == files[which]
       IN  IF ~f.exists
           THEN pc' = "FileNotFoundError" /\ UNCHANGED parseVars
           ELSE IF f.lines = <<>>
           THEN pc' = "Exception" /\ UNCHANGED parseVars    \* lines[0]: IndexError
           ELSE /\ pc' = "scan"
                /\ lines' = f.lines
                /\ algorithm_name' = AlgorithmName(f.lines)
                /\ total_events' = EventLoop(0, f.lines)
                /\ round_details' = RoundLoop(<<>>, f.lines)
                /\ node_stats' = <<>>
                /\ in_finish_section' = FALSE
                /\ current_stats' = <<>>
                /\ idx' = 1
    /\ UNCHANGED <<argc, files, viz, which, metrics, report, chart, exit_status>>

\* lines 93-153: one iteration of the node-statistics loop
ParseLine ==
    /\ pc = "scan"
    /\ idx <= Len(lines)
    /\ LET s == NodeStatsStep([fin |-> in_finish_section, cs |-> current_stats,
                               ns |-> node_stats], lines[idx])
       IN  /\ in_finish_section' = s.fin
           /\ current_stats' = s.cs
           /\ node_stats' = s.ns
    /\ idx' = idx + 1
    /\ UNCHANGED <<argc, files, viz, pc, which, lines, algorithm_name,
                   total_events, round_details, metrics, report, chart,
                   exit_status>>

\* lines 155-178 and 445/448: the last record, the aggregates, the return
ParseReturn ==
    /\ pc = "scan"
    /\ idx > Len(lines)
    /\ metrics' = [metrics EXCEPT ![which] =
                     <<AlgorithmMetrics(algorithm_name,
                                        Finalize(node_stats, current_stats),
                                        total_events, round_details)>>]
    /\ IF which = 1 THEN pc' = "parse" /\ which' = 2
                    ELSE pc' = "summary" /\ which' = which
    /\ UNCHANGED <<argc, files, viz, report, chart, exit_status>>
    /\ UNCHANGED parseVars

\* lines 453-456
PrintSummary ==
    /\ pc = "summary"
    /\ report' = <<Summary(metrics[1][1], metrics[2][1])>>
    /\ pc' = "visualize"
    /\ UNCHANGED <<argc, files, viz, which, metrics, chart, exit_status>>
    /\ UNCHANGED parseVars

\* a chart step whose exception is not caught inside it
GenerateVisualizations_Propagates ==
    /\ pc = "visualize"
    /\ IF viz = "raises"
       THEN pc' = "Exception" /\ chart' = chart
       ELSE /\ chart' = IF viz = "ok" THEN "comparison_analysis.png" ELSE "None"
            /\ pc' = "return"
    /\ UNCHANGED <<argc, files, viz, which, metrics, report, exit_status>>
    /\ UNCHANGED parseVars

\* lines 305-312 and 421-427, called at line 459
GenerateVisualizations ==
    /\ pc = "visualize"
    /\ chart' = IF viz = "ok" THEN "comparison_analysis.png" ELSE "None"
    /\ pc' = "return"
    /\ UNCHANGED <<argc, files, viz, which, metrics, report, exit_status>>
    /\ UNCHANGED parseVars

\* line 461 and the return of main
MainReturn ==
    /\ pc = "return"
    /\ pc' = "exit"
    /\ exit_status' = 0
    /\ UNCHANGED <<argc, files, viz, which, metrics, report, chart>>
    /\ UNCHANGED parseVars

\* a handler that reports the missing file and lets main return normally
ExceptFileNotFound_ExitZero ==
    /\ pc = "FileNotFoundError"
    /\ pc' = "exit"
    /\ exit_status' = 0
    /\ UNCHANGED <<argc, files, viz, which, metrics, report, chart>>
    /\ UNCHANGED parseVars

\* lines 463-465
ExceptFileNotFound ==
    /\ pc = "FileNotFoundError"
    /\ pc' = "exit"
    /\ exit_status' = 1
    /\ UNCHANGED <<argc, files, viz, which, metrics, report, chart>>
    /\ UNCHANGED parseVars

\* lines 466-470
ExceptException ==
    /\ pc = "Exception"
    /\ pc' = "exit"
    /\ exit_status' = 1
    /\ UNCHANGED <<argc, files, viz, which, metrics, report, chart>>
    /\ UNCHANGED parseVars

Next ==
    \/ MainArgs
    \/ ParseOpen
    \/ ParseLine
    \/ ParseReturn
    \/ PrintSummary
    \/ GenerateVisualizations
    \/ MainReturn
    \/ ExceptFileNotFound
    \/ ExceptException

(***************************************************************************)
(* Initial states: the process at the entry of main, for the inputs of a   *)
(* family of runs.                                                         *)
(***************************************************************************)
File(ls)  == [exists |-> TRUE, lines |-> ls]
Missing   == [exists |-> FALSE, lines |-> <<>>]

Start(a, f1, f2, v) ==
    /\ argc = a
    /\ files = <<f1, f2>>
    /\ viz = v
    /\ pc = "main"
    /\ which = 0
    /\ NoParse
    /\ metrics = <<<<>>, <<>>>>
    /\ report = <<>>
    /\ chart = ""
    /\ exit_status = -1

\* all sequences over S of length at most n
SeqUpTo(S, n) == UNION {[1..m -> S] : m \in 0..n}

\* a short log of the second algorithm
AnonymousLog == << <<Anonymous>>, <<Finish>>, <<NodeStart(0)>>, <<MessagesSent(1)>> >>

\* the runs in which main fails or charts: wrong argument counts, missing
\* and empty files, each charting outcome
SmallFiles == {Missing, File(<<>>), File(<< <<Arbitrary>> >>), File(AnonymousLog)}

EdgeRuns ==
    \E a \in {2, 3, 4}, f1 \in SmallFiles, f2 \in SmallFiles,
       v \in {"absent", "ok", "raises"} : Start(a, f1, f2, v)

\* a run of main on the log ls and a short second log
RunOn(ls) == Start(3, File(ls), File(<< <<Anonymous>> >>), "absent")

\* The general family: every log of at most MaxLen lines, each line holding
\* one occurrence of a shape of the node-statistics loop.
LinesG ==
    { <<Finish>>, <<NodeStart(0)>>, <<NodeStart(1)>>,
      <<MessagesSent(0)>>, <<MessagesSent(2)>>, <<RoundsCompleted(1)>>,
      <<FinalState("LEADER")>>, <<FinalState("PASSIVE")>>,
      <<IsLeader("YES")>>, <<IsLeader("NO")>>,
      <<FinalLeader(0)>>, <<FinalLeader(1)>> }

Init ==
    \/ EdgeRuns
    \/ \E ls \in SeqUpTo(LinesG, MaxLen) : RunOn(ls)

Spec == Init /\ [][Next]_vars

\* The event family: logs of at most MaxLen lines that hold event numbers,
\* one or two on a line, and the finish marker, alone or with an event.
LinesE ==
    {<<Finish>>, <<Finish, Event(MaxNum)>>}
      \cup {<<Event(e)>> : e \in 1..MaxNum}
      \cup {<<Event(p[1]), Event(p[2])>> :
               p \in {q \in (1..MaxNum) \X (1..MaxNum) : q[1] # q[2]}}

InitEvents ==
    \/ EdgeRuns
    \/ \E ls \in SeqUpTo(LinesE, MaxLen) : RunOn(ls)

SpecEvents == InitEvents /\ [][Next]_vars

\* The section family: the finish marker, then at most MaxSections node
\* sections, each a node-start line and up to two different field lines.
FieldLines ==
    { <<MessagesSent(0)>>, <<MessagesSent(2)>>, <<IsLeader("YES")>>,
      <<FinalLeader(0)>>, <<FinalLeader(1)>> }

Bodies ==
    {<<>>} \cup {<<a>> : a \in FieldLines}
           \cup {b \in FieldLines \X FieldLines : b[1] # b[2]}

Sections == {<<<<NodeStart(n)>>>> \o b : n \in 0..1, b \in Bodies}

RECURSIVE Concat(_)
Concat(ss) == IF ss = <<>> THEN <<>> ELSE Head(ss) \o Concat(Tail(ss))

InitSections ==
    \/ EdgeRuns
    \/ \E ss \in SeqUpTo(Sections, MaxSections) : RunOn(<<<<Finish>>>> \o Concat(ss))

SpecSections == InitSections /\ [][Next]_vars

\* The flag family: the finish marker, one node-start line, then the lines
\* Is Leader: YES, Messages Sent: m and Rounds Completed: r in some order.
Permutations3(a, b, c) ==
    {<<a, b, c>>, <<a, c, b>>, <<b, a, c>>, <<b, c, a>>, <<c, a, b>>, <<c, b, a>>}

FlagLogs ==
    UNION { { <<<<Finish>>, <<NodeStart(n)>>>> \o p :
                p \in Permutations3(<<IsLeader("YES")>>, <<MessagesSent(m)>>,
                                    <<RoundsCompleted(r)>>) } :
            n \in 0..MaxNum, m \in 1..MaxNum + 1, r \in 0..MaxNum }

InitFlag ==
    \/ EdgeRuns
    \/ \E ls \in FlagLogs : RunOn(ls)

SpecFlag == InitFlag /\ [][Next]_vars

(***************************************************************************)
(* Reading a log: the recognizer that consumed each line, and the node     *)
(* section a line lies in.                                                 *)
(***************************************************************************)
\* the recognizers that consume the lines ls, in order, when the loop of
\* line 93 runs on them from the state s
RECURSIVE ScanFrom(_, _)
ScanFrom(s, ls) ==
    IF ls = <<>> THEN <<>>
    ELSE <<Recognizer(s.fin, s.cs, Head(ls))>>
            \o ScanFrom(NodeStatsStep(s, Head(ls)), Tail(ls))

\* c[j] is the recognizer that consumed line j of the log ls
Consumers(ls) == ScanFrom([fin |-> FALSE, cs |-> <<>>, ns |-> <<>>], ls)

\* the node-start lines
NodeStarts(c) == {j \in 1..Len(c) : c[j] = "node_start"}

\* the node-start line of the section that is in progress after line i
\* (0 when no section has started)
SectionStart(c, i) == SetMax({0} \cup {j \in NodeStarts(c) : j <= i})

\* the lines of that section after its node-start line, up to line i, that
\* the recognizers named in rs consumed
SectionLines(c, i, rs) == {j \in SectionStart(c, i) + 1 .. i : c[j] \in rs}

\* the last line of the section that starts at the node-start line j
SectionEnd(c, j) ==
    LET later == {i \in NodeStarts(c) : i > j}
    IN  IF later = {} THEN Len(c) ELSE SetMin(later) - 1

\* the number of the last Messages Sent line of that section, 0 without one
SectionMessages(ls, c, j) ==
    LET M == SectionLines(c, SectionEnd(c, j), {"msg"})
    IN  IF M = {} THEN 0 ELSE search("Messages Sent: ", ls[SetMax(M)])[1].n

\* the sum of the function f over the subset S of its domain
RECURSIVE SumSet(_, _)
SumSet(S, f) ==
    IF S = {} THEN 0
    ELSE LET x == CHOOSE y \in S : TRUE IN f[x] + SumSet(S \ {x}, f)

Parsed(k) == metrics[k] # <<>>
Result(k) == metrics[k][1]
Log(k)    == files[k].lines

(***************************************************************************)
(* C1.  In the node record in progress, once a Final State line has fired, *)
(* final_state is the word of the section's last Final State line and      *)
(* is_leader is whether that word is LEADER: a later Is Leader line of the *)
(* section does not overwrite them.                                        *)
(***************************************************************************)
C1_FinalStateKept ==
    (pc = "scan" /\ current_stats # <<>>) =>
      LET S == SectionLines(Consumers(lines), idx - 1, {"state"})
      IN  S # {} =>
            LET w == search("Final State: ", lines[SetMax(S)])[1].w
            IN  /\ current_stats[1].final_state = w
                /\ current_stats[1].is_leader = (w = "LEADER")

(***************************************************************************)
(* C2.  A line consumed by the Final Leader recognizer, in a section in    *)
(* which a Final State or an Is Leader line has fired before, leaves       *)
(* is_leader and final_state of the record in progress unchanged.          *)
(***************************************************************************)
C2_FinalLeaderKeepsState ==
    [][ ( /\ pc = "scan"
          /\ idx <= Len(lines)
          /\ Recognizer(in_finish_section, current_stats, lines[idx]) = "final_leader"
          /\ SectionLines(Consumers(lines), idx - 1, {"state", "leader"}) # {} )
        => /\ current_stats' # <<>>
           /\ current_stats'[1].node_id = current_stats[1].node_id
           /\ current_stats'[1].is_leader = current_stats[1].is_leader
           /\ current_stats'[1].final_state = current_stats[1].final_state ]_vars

\* Final State: LEADER, then Final Leader: k on a node whose id is not k
C2_Witness ==
    /\ pc = "scan"
    /\ idx > 2
    /\ Consumers(lines)[idx - 1] = "final_leader"
    /\ Consumers(lines)[idx - 2] = "state"
    /\ search("Final Leader: ", lines[idx - 1])[1].n # current_stats[1].node_id
    /\ current_stats[1].final_state = "LEADER"
    /\ current_stats[1].is_leader

(***************************************************************************)
(* C3.  Parsing a file that exists never fails: parse raises nothing, a    *)
(* log in which no line is recognized yields zero totals, the sentinel     *)
(* leader and no nodes, and with two files that exist main does not exit   *)
(* with a non-zero status.                                                 *)
(***************************************************************************)
Unrecognized(ls) ==
    \A j \in 1..Len(ls) :
        /\ Consumers(ls)[j] \in {"none", "finish"}
        /\ search("Event #", ls[j]) = <<>>

C3_ParsingNeverFails ==
    /\ pc # "Exception"
    /\ \A k \in 1..2 :
          (Parsed(k) /\ Unrecognized(Log(k))) =>
             /\ Result(k).total_messages = 0
             /\ Result(k).total_rounds = 0
             /\ Result(k).total_events = 0
             /\ Result(k).leader_id = -1
             /\ Result(k).node_stats = <<>>
    /\ (argc = 3 /\ files[1].exists /\ files[2].exists) => exit_status \in {-1, 0}

(***************************************************************************)
(* C4.  No record of a node list, in progress or returned, has             *)
(* messages_sent = 0.                                                      *)
(***************************************************************************)
NoZeroMessages(ns) == \A i \in 1..Len(ns) : ns[i].messages_sent # 0

C4_NoZeroMessageRecord ==
    /\ NoZeroMessages(node_stats)
    /\ \A k \in 1..2 : Parsed(k) => NoZeroMessages(Result(k).node_stats)

\* a section whose non-zero Messages Sent was overwritten by 0 is dropped
C4_Witness ==
    /\ Parsed(1)
    /\ Result(1).node_stats = <<>>
    /\ LET M == SectionLines(Consumers(Log(1)), Len(Log(1)), {"msg"})
       IN  /\ M # {}
           /\ search("Messages Sent: ", Log(1)[SetMax(M)])[1].n = 0
           /\ \E j \in M : search("Messages Sent: ", Log(1)[j])[1].n > 0

(***************************************************************************)
(* C5.  total_messages of a returned RunMetrics is the sum of              *)
(* messages_sent over its node records, which is the sum, over the node    *)
(* sections of the log, of the section's last Messages Sent number.        *)
(***************************************************************************)
C5_TotalMessagesIsSum ==
    \A k \in 1..2 : Parsed(k) =>
        LET ns == Result(k).node_stats
            c  == Consumers(Log(k))
            sent == [i \in 1..Len(ns) |-> ns[i].messages_sent]
            last == [j \in NodeStarts(c) |-> SectionMessages(Log(k), c, j)]
        IN  /\ Result(k).total_messages = SumSet(1..Len(ns), sent)
            /\ Result(k).total_messages = SumSet(NodeStarts(c), last)

\* a retained section and a discarded one that had a Messages Sent line
C5_Witness ==
    /\ Parsed(1)
    /\ Len(Result(1).node_stats) = 1
    /\ Result(1).total_messages > 0
    /\ LET c == Consumers(Log(1))
       IN  \E j \in NodeStarts(c) :
              /\ SectionMessages(Log(1), c, j) = 0
              /\ SectionLines(c, SectionEnd(c, j), {"msg"}) # {}

(***************************************************************************)
(* C6.  leader_id of a returned RunMetrics is the node_id of the first     *)
(* record of the node list whose is_leader is true, and it is -1, which is *)
(* no node id, exactly when no record has is_leader true.                  *)
(***************************************************************************)
C6_LeaderIsFirstLeader ==
    \A k \in 1..2 : Parsed(k) =>
        LET ns == Result(k).node_stats
            L  == {i \in 1..Len(ns) : ns[i].is_leader}
        IN  /\ \A i \in 1..Len(ns) : ns[i].node_id # -1
            /\ (Result(k).leader_id = -1) <=> (L = {})
            /\ L # {} =>
                 Result(k).leader_id =
                    ns[CHOOSE i \in L : \A y \in L : i <= y].node_id

\* two leaders with different ids are retained
C6_Witness ==
    /\ Parsed(1)
    /\ Len(Result(1).node_stats) = 2
    /\ Result(1).node_stats[1].is_leader
    /\ Result(1).node_stats[2].is_leader
    /\ Result(1).node_stats[1].node_id # Result(1).node_stats[2].node_id
    /\ Result(1).leader_id = Result(1).node_stats[1].node_id

(***************************************************************************)
(* C7.  As claimed: total_events is the highest number of any Event text   *)
(* of the log, 0 without one.                                              *)
(***************************************************************************)
AllEvents(ls) ==
    UNION {{search("Event #", ls[j])[i].n : i \in 1..Len(search("Event #", ls[j]))} :
             j \in 1..Len(ls)}

C7_MaxOfAllEvents ==
    \A k \in 1..2 : Parsed(k) =>
        Result(k).total_events = SetMax({0} \cup AllEvents(Log(k)))

(***************************************************************************)
(* C7, amended.  total_events is the highest among the numbers of the      *)
(* first Event text of each line of the log, wherever the line stands, and *)
(* 0 when no line holds one.                                               *)
(***************************************************************************)
FirstEvents(ls) ==
    {search("Event #", ls[j])[1].n :
        j \in {i \in 1..Len(ls) : search("Event #", ls[i]) # <<>>}}

C7_MaxOfFirstEvents ==
    \A k \in 1..2 : Parsed(k) =>
        Result(k).total_events = SetMax({0} \cup FirstEvents(Log(k)))

\* after the marker, a line with the highest first number, then a line with
\* a lower first number and a higher second one
C7_Witness ==
    /\ Parsed(1)
    /\ \E f, i, j \in 1..Len(Log(1)) :
          /\ f < i /\ i < j
          /\ contains("Calling finish() methods", Log(1)[f])
          /\ Log(1)[i] = <<Event(2)>>
          /\ Log(1)[j] = <<Event(1), Event(2)>>
    /\ Result(1).total_events = 2

(***************************************************************************)
(* C8.  In a log with at least two node sections, none with a Final State  *)
(* or an Is Leader line, each with a non-zero last Messages Sent and with  *)
(* Final Leader lines that all name k, one of the sections being node k's: *)
(* every section is retained, a record is a leader with final_state LEADER *)
(* if its node_id is k and a non-leader with NON_LEADER otherwise, and     *)
(* leader_id is k.                                                         *)
(***************************************************************************)
FallbackLog(ls, c, k) ==
    /\ Cardinality(NodeStarts(c)) >= 2
    /\ \A j \in 1..Len(ls) : c[j] \notin {"state", "leader"}
    /\ \A j \in NodeStarts(c) :
          LET F == SectionLines(c, SectionEnd(c, j), {"final_leader"})
          IN  /\ F # {}
              /\ \A f \in F : search("Final Leader: ", ls[f])[1].n = k
              /\ SectionMessages(ls, c, j) > 0
    /\ \E j \in NodeStarts(c) : search("Node statistics:", ls[j])[1].n = k

\* the numbers the Final Leader lines of a log name
FinalLeaders(ls) ==
    {search("Final Leader: ", ls[j])[1].n :
        j \in {i \in 1..Len(ls) : search("Final Leader: ", ls[i]) # <<>>}}

C8_FinalLeaderFallback ==
    \A k \in 1..2 : Parsed(k) =>
        \A n \in FinalLeaders(Log(k)) :
          LET c == Consumers(Log(k))
          IN  FallbackLog(Log(k), c, n) =>
            LET ns == Result(k).node_stats
            IN  /\ Len(ns) = Cardinality(NodeStarts(c))
                /\ \A i \in 1..Len(ns) :
                      /\ ns[i].is_leader = (ns[i].node_id = n)
                      /\ ns[i].final_state =
                            IF ns[i].node_id = n THEN "LEADER" ELSE "NON_LEADER"
                /\ Result(k).leader_id = n

\* nodes 0 and 1, both see Final Leader: 1
C8_Witness ==
    /\ Parsed(1)
    /\ FallbackLog(Log(1), Consumers(Log(1)), 1)
    /\ Len(Result(1).node_stats) = 2
    /\ Result(1).node_stats[1].node_id = 0
    /\ ~Result(1).node_stats[1].is_leader
    /\ Result(1).node_stats[2].node_id = 1
    /\ Result(1).node_stats[2].is_leader
    /\ Result(1).leader_id = 1

(***************************************************************************)
(* C9.  A log that is the finish marker, the node-start line of node n     *)
(* and, in any order, Is Leader: YES, Messages Sent: m with m > 0 and      *)
(* Rounds Completed: r yields leader_id n, total_messages m, total_rounds  *)
(* r and one record, whose final_state is LEADER.                          *)
(***************************************************************************)
FlagLog(ls) ==
    /\ Len(ls) = 5
    /\ ls[1] = <<Finish>>
    /\ Len(ls[2]) = 1 /\ ls[2][1].k = "Node statistics:"
    /\ \E a, b, c \in 3..5 :
          /\ {a, b, c} = 3..5
          /\ ls[a] = <<IsLeader("YES")>>
          /\ Len(ls[b]) = 1 /\ ls[b][1].k = "Messages Sent: " /\ ls[b][1].n > 0
          /\ Len(ls[c]) = 1 /\ ls[c][1].k = "Rounds Completed: "

\* the number of the line of ls[3..5] that holds the shape k
FlagNumber(ls, k) == search(k, ls[3] \o ls[4] \o ls[5])[1].n

C9_LeaderFlagAnyOrder ==
    \A k \in 1..2 : (Parsed(k) /\ FlagLog(Log(k))) =>
        /\ Result(k).leader_id = Log(k)[2][1].n
        /\ Result(k).total_messages = FlagNumber(Log(k), "Messages Sent: ")
        /\ Result(k).total_rounds = FlagNumber(Log(k), "Rounds Completed: ")
        /\ Len(Result(k).node_stats) = 1
        /\ Result(k).node_stats[1].final_state = "LEADER"

\* the flag comes first and the messages last
C9_Witness ==
    /\ Parsed(1)
    /\ FlagLog(Log(1))
    /\ Log(1)[3] = <<IsLeader("YES")>>
    /\ Log(1)[5] = <<MessagesSent(2)>>
    /\ Result(1).leader_id = 1
    /\ Result(1).total_messages = 2
    /\ Result(1).total_rounds = 2

(***************************************************************************)
(* C10.  No two records of a returned node list have the same node_id.     *)
(***************************************************************************)
C10_UniqueNodeIds ==
    \A k \in 1..2 : Parsed(k) =>
        \A i, j \in 1..Len(Result(k).node_stats) :
            i # j => Result(k).node_stats[i].node_id # Result(k).node_stats[j].node_id

(***************************************************************************)
(* C11.  In every returned node list at most one record has is_leader set, *)
(* whatever the log holds.                                                 *)
(***************************************************************************)
Leaders(ns) == {i \in 1..Len(ns) : ns[i].is_leader}

C11_AtMostOneLeader ==
    \A k \in 1..2 : Parsed(k) => Cardinality(Leaders(Result(k).node_stats)) <= 1

(***************************************************************************)
(* Logs of round lines: with and without the marker INFO:, in both letter  *)
(* cases, with blanks around the text, with one round mention and with two.*)
(***************************************************************************)
LinesD ==
    { <<Info, RoundMention(1)>>,
      <<Info, RoundUpper(2)>>,
      <<RoundMention(1)>>,
      <<InfoLower, RoundMention(2)>>,
      <<Space, Info, RoundMention(2), Space>>,
      <<Info, RoundMention(1), RoundMention(2)>>,
      <<Info, RoundUpper(2), RoundMention(1)>>,
      <<Info>> }

InitDetails ==
    \/ EdgeRuns
    \/ \E ls \in SeqUpTo(LinesD, MaxLen) : RunOn(ls)

SpecDetails == InitDetails /\ [][Next]_vars

\* what a line says, read off its text
Marked(line)   == \E i \in 1..Len(line) : line[i].k = "INFO:"
MentionAt(line) == {i \in 1..Len(line) : line[i].k \in {"round ", "Round "}}
Mentions(line) == {line[i].n : i \in MentionAt(line)}
FirstMention(line) == line[SetMin(MentionAt(line))].n
AllMentions(ls) == UNION {Mentions(ls[j]) : j \in 1..Len(ls)}

Trimmed(ls) == [i \in 1..Len(ls) |-> strip(ls[i])]

\* the marked lines that mention round n anywhere, trimmed, in file order
UnderRound(ls, n) ==
    LET Test(line) == Marked(line) /\ n \in Mentions(line)
    IN  Trimmed(SelectSeq(ls, Test))

\* the marked lines whose first mention is round n, trimmed, in file order
UnderFirstRound(ls, n) ==
    LET Test(line) == Marked(line) /\ MentionAt(line) # {} /\ FirstMention(line) = n
    IN  Trimmed(SelectSeq(ls, Test))

(***************************************************************************)
(* C12, as stated.  round_details[n] is, in file order, the trimmed text   *)
(* of exactly the lines that hold INFO: and mention round n; a line that   *)
(* mentions several rounds stands under each of them.                      *)
(***************************************************************************)
C12_UnderEveryMention ==
    \A k \in 1..2 : Parsed(k) =>
        LET rd == Result(k).round_details
        IN  /\ DOMAIN rd = {n \in AllMentions(Log(k)) : UnderRound(Log(k), n) # <<>>}
            /\ \A n \in DOMAIN rd : rd[n] = UnderRound(Log(k), n)

(***************************************************************************)
(* C12, amended.  round_details[n] is, in file order, the trimmed text of  *)
(* exactly the lines that hold INFO: and whose first round mention is      *)
(* round n; a line without the marker stands nowhere, and a line that      *)
(* mentions several rounds stands under the first of them only.            *)
(***************************************************************************)
C12_UnderFirstMention ==
    \A k \in 1..2 : Parsed(k) =>
        LET rd == Result(k).round_details
        IN  /\ DOMAIN rd = {n \in AllMentions(Log(k)) : UnderFirstRound(Log(k), n) # <<>>}
            /\ \A n \in DOMAIN rd : rd[n] = UnderFirstRound(Log(k), n)

\* a line that mentions round 2 and then round 1, a line without the
\* marker, and a line with blanks around its text: two lines under round 2,
\* none under round 1
C12_Witness ==
    /\ Parsed(1)
    /\ Log(1) = << <<Info, RoundUpper(2), RoundMention(1)>>,
                   <<RoundMention(1)>>,
                   <<Space, Info, RoundMention(2), Space>> >>
    /\ DOMAIN Result(1).round_details = {2}
    /\ Result(1).round_details[2] =
           << <<Info, RoundUpper(2), RoundMention(1)>>, <<Info, RoundMention(2)>> >>

(***************************************************************************)
(* Runs whose two files hold the same lines: event, round, marker, node    *)
(* and field lines in any order.                                           *)
(***************************************************************************)
LinesT ==
    { <<Event(1)>>, <<Info, RoundMention(1)>>, <<Finish>>, <<NodeStart(0)>>,
      <<MessagesSent(2)>>, <<RoundsCompleted(1)>>, <<IsLeader("YES")>> }

InitTwice ==
    \/ EdgeRuns
    \/ \E ls \in SeqUpTo(LinesT, MaxLen) : Start(3, File(ls), File(ls), "absent")

SpecTwice == InitTwice /\ [][Next]_vars

(***************************************************************************)
(* C13.  Parsing the same lines twice gives the same metrics: whatever the *)
(* first parse left behind, the second parse of the same lines returns an  *)
(* equal record in every field.                                            *)
(***************************************************************************)
C13_SameLinesSameMetrics ==
    (Parsed(1) /\ Parsed(2) /\ Log(1) = Log(2)) => Result(1) = Result(2)

\* both parses are done on a log with an event, a marker and a retained
\* leader section; the first parse ended with the section still in progress
C13_Witness ==
    /\ Parsed(1) /\ Parsed(2)
    /\ Log(1) = Log(2)
    /\ Log(1) = << <<Finish>>, <<NodeStart(0)>>, <<MessagesSent(2)>>, <<IsLeader("YES")>> >>
    /\ Result(1).total_messages = 2
    /\ Result(2).total_messages = 2
    /\ Result(2).leader_id = 0
    /\ Len(Result(2).node_stats) = 1

(***************************************************************************)
(* Runs of the entry point: every argument count around the right one,     *)
(* every pair of a missing, an empty, a one-line and a four-line file, and *)
(* every outcome of the chart step.                                        *)
(***************************************************************************)
InitMain == EdgeRuns

SpecMain == InitMain /\ [][Next]_vars

(***************************************************************************)
(* C14.  The chart step never changes the outcome: whether the charting    *)
(* libraries are absent, rendering raises or rendering succeeds, once the  *)
(* report is printed the run goes on to a normal return with status 0, no  *)
(* exception leaves the chart step, the step yields no output file unless  *)
(* rendering succeeded, and the report stays the summary of the two        *)
(* parsed results.                                                         *)
(***************************************************************************)
C14_ChartNeverChangesOutcome ==
    report # <<>> =>
        /\ pc \in {"visualize", "return", "exit"}
        /\ report[1] = Summary(Result(1), Result(2))
        /\ pc \in {"return", "exit"} =>
               chart = IF viz = "ok" THEN "comparison_analysis.png" ELSE "None"
        /\ pc = "exit" => exit_status = 0

\* rendering raised, and the run still ended with status 0 and its report
C14_Witness ==
    /\ viz = "raises"
    /\ pc = "exit"
    /\ exit_status = 0
    /\ chart = "None"
    /\ report = <<Summary(Result(1), Result(2))>>

(***************************************************************************)
(* C15.  With an argument count other than two the run ends with a         *)
(* non-zero status before any file is parsed; with a missing first or      *)
(* second file the run ends with a non-zero status and neither the report  *)
(* step nor the chart step is run.  A run that has not ended can go on.    *)
(***************************************************************************)
C15_FailureBeforeWork ==
    /\ argc # 3 =>
          /\ pc \in {"main", "exit"}
          /\ NoParse
          /\ metrics = << <<>>, <<>> >>
          /\ report = <<>> /\ chart = ""
          /\ pc = "exit" => exit_status = 1
    /\ (argc = 3 /\ \E k \in 1..2 : ~files[k].exists) =>
          /\ pc \notin {"summary", "visualize", "return"}
          /\ report = <<>> /\ chart = ""
          /\ pc = "exit" => exit_status = 1
    /\ pc # "exit" => ENABLED Next

\* the first file was parsed, the second is missing: status 1 and no report
C15_Witness ==
    /\ argc = 3
    /\ files[1].exists /\ ~files[2].exists
    /\ Parsed(1) /\ ~Parsed(2)
    /\ pc = "exit"
    /\ exit_status = 1
    /\ report = <<>> /\ chart = ""

(***************************************************************************)
(* Logs of lines that hold two shapes at once, in both text orders, next   *)
(* to the marker line and a plain node-start line.                         *)
(***************************************************************************)
LinesM ==
    { <<Finish>>,
      <<NodeStart(0)>>,
      <<NodeStart(1), MessagesSent(2)>>,
      <<MessagesSent(2), RoundsCompleted(1)>>,
      <<RoundsCompleted(1), MessagesSent(2)>>,
      <<RoundsCompleted(1), FinalState("LEADER")>>,
      <<FinalState("PASSIVE"), IsLeader("YES")>>,
      <<IsLeader("YES"), FinalLeader(0)>>,
      <<FinalLeader(0), Event(1)>>,
      <<FinalLeader(0), NodeStart(1)>>,
      <<Finish, NodeStart(1)>> }

InitMulti ==
    \/ EdgeRuns
    \/ \E ls \in SeqUpTo(LinesM, MaxLen) : RunOn(ls)

SpecMulti == InitMulti /\ [][Next]_vars

\* the fixed order of the recognizers of a finish-mode line
Order == << "Node statistics:", "Messages Sent: ", "Rounds Completed: ",
            "Final State: ", "Is Leader: ", "Final Leader: " >>

Shapes(line) == {line[i].k : i \in 1..Len(line)}

\* the place in Order of the first recognizer that matches the line, or 0
FirstInOrder(line) ==
    LET hits == {p \in 1..Len(Order) : Order[p] \in Shapes(line)}
    IN  IF hits = {} THEN 0 ELSE SetMin(hits)

Fields == {"node_id", "messages_sent", "rounds_completed", "final_state", "is_leader"}

\* the fields the recognizer at place p of Order may write
Owned(p) ==
    CASE p = 2 -> {"messages_sent"}
      [] p = 3 -> {"rounds_completed"}
      [] p \in 4..6 -> {"final_state", "is_leader"}
      [] OTHER -> {}

\* a line of the node-statistics loop is being read in finish-section mode
\* and is not a marker line
FinishModeLine ==
    /\ pc = "scan" /\ idx <= Len(lines)
    /\ in_finish_section
    /\ "Calling finish() methods" \notin Shapes(lines[idx])

(***************************************************************************)
(* C16.  A line read in finish-section mode is consumed by at most one     *)
(* recognizer, the first that matches in the order node-start, Messages    *)
(* Sent, Rounds Completed, Final State, Is Leader, Final Leader: a line    *)
(* with a node-start text starts a record with the defaults, whatever else *)
(* it holds; any other line leaves the node list alone and changes only    *)
(* the fields of the first matching recognizer.                            *)
(***************************************************************************)
C16_OneRecognizerPerLine ==
    [][FinishModeLine =>
        LET line == lines[idx]
            p == FirstInOrder(line)
        IN  IF p = 1
            THEN current_stats' =
                   <<[node_id |-> search("Node statistics:", line)[1].n,
                      messages_sent |-> 0, rounds_completed |-> 0,
                      final_state |-> "", is_leader |-> FALSE]>>
            ELSE /\ node_stats' = node_stats
                 /\ current_stats = <<>> => current_stats' = <<>>
                 /\ current_stats # <<>> =>
                      /\ current_stats' # <<>>
                      /\ \A f \in Fields \ Owned(p) :
                             current_stats'[1][f] = current_stats[1][f]
                      /\ p = 2 => current_stats'[1].messages_sent =
                                      search("Messages Sent: ", line)[1].n
                      /\ p = 3 => current_stats'[1].rounds_completed =
                                      search("Rounds Completed: ", line)[1].n
    ]_vars

\* a line with Messages Sent and Rounds Completed set the messages only,
\* and the line with a node-start and Messages Sent that followed started
\* node 1 with no messages
C16_Witness ==
    /\ pc = "scan" /\ idx = 5
    /\ lines = << <<Finish>>, <<NodeStart(0)>>,
                  <<MessagesSent(2), RoundsCompleted(1)>>,
                  <<NodeStart(1), MessagesSent(2)>> >>
    /\ Len(node_stats) = 1
    /\ node_stats[1].messages_sent = 2
    /\ node_stats[1].rounds_completed = 0
    /\ current_stats = <<NewStats(1)>>

\* among the first i lines of ls, a node-start line stands after a marker
\* line (and is no marker line itself)
HeaderAt(ls, i) ==
    {j \in 1..i :
        /\ "Node statistics:" \in Shapes(ls[j])
        /\ "Calling finish() methods" \notin Shapes(ls[j])
        /\ \E f \in 1..(j - 1) : "Calling finish() methods" \in Shapes(ls[f])}

\* the node list of the lines ls read in finish-section mode from no record
Nodes(ls) ==
    LET s == LoopFrom([fin |-> TRUE, cs |-> <<>>, ns |-> <<>>], ls)
    IN  Finalize(s.ns, s.cs)

(***************************************************************************)
(* C17.  Node lines count only after the marker, field lines only after a  *)
(* node-start: while no node-start line has been read after a marker line  *)
(* there is neither a record in progress nor a record in the node list,    *)
(* whatever node-start and field lines were read; of a whole log, the      *)
(* lines before the first node-start that follows a marker have no effect  *)
(* on the node list, the totals and the leader.                            *)
(***************************************************************************)
C17_NothingBeforeSection ==
    /\ (pc = "scan" /\ HeaderAt(lines, idx - 1) = {}) =>
           current_stats = <<>> /\ node_stats = <<>>
    /\ \A k \in 1..2 : Parsed(k) =>
           LET h == HeaderAt(Log(k), Len(Log(k)))
           IN  IF h = {}
               THEN /\ Result(k).node_stats = <<>>
                    /\ Result(k).total_messages = 0
                    /\ Result(k).total_rounds = 0
                    /\ Result(k).leader_id = -1
               ELSE Result(k).node_stats =
                        Nodes(SubSeq(Log(k), SetMin(h), Len(Log(k))))

\* a node-start line and a field line before the marker, a field line
\* after it: nothing in progress, nothing in the list
C17_Witness ==
    /\ pc = "scan" /\ idx = 5
    /\ lines = << <<NodeStart(0)>>, <<MessagesSent(2)>>, <<Finish>>, <<MessagesSent(2)>> >>
    /\ in_finish_section
    /\ current_stats = <<>>
    /\ node_stats = <<>>

\* the marker text stands in the line
MarkerLine(line) == "Calling finish() methods" \in Shapes(line)

(***************************************************************************)
(* C18.  In one pass of the node-statistics loop in_finish_section is      *)
(* false until the first line with the marker has been read and true from  *)
(* then on; a marker line, the first or a later one, is consumed as a      *)
(* marker only: whatever else it holds, the record in progress and the     *)
(* node list stay as they are.                                             *)
(***************************************************************************)
C18_FinishModeIsMonotone ==
    [][pc = "scan" =>
        /\ in_finish_section = (\E j \in 1..(idx - 1) : MarkerLine(lines[j]))
        /\ (pc' = "scan" /\ in_finish_section) => in_finish_section'
        /\ (idx <= Len(lines) /\ MarkerLine(lines[idx])) =>
              /\ in_finish_section'
              /\ current_stats' = current_stats
              /\ node_stats' = node_stats
    ]_vars

\* a second marker line that also holds a node-start text was read while
\* node 0 was in progress: node 0 is still the record, and takes the next
\* field line
C18_Witness ==
    /\ pc = "scan" /\ idx = 5
    /\ lines = << <<Finish>>, <<NodeStart(0)>>, <<Finish, NodeStart(1)>>,
                  <<MessagesSent(2), RoundsCompleted(1)>> >>
    /\ in_finish_section
    /\ node_stats = <<>>
    /\ current_stats # <<>>
    /\ current_stats[1].node_id = 0
    /\ current_stats[1].messages_sent = 2

\* the node sections of the log ls, read off its text: a section starts at
\* a node-start line that follows a marker and runs to the next such line
Starts(ls) == HeaderAt(ls, Len(ls))

SectionBody(ls, j) ==
    LET later == {i \in Starts(ls) : i > j}
    IN  (j + 1) .. (IF later = {} THEN Len(ls) ELSE SetMin(later) - 1)

\* the number of the last line of the section that Messages Sent consumes,
\* 0 without one
LastMessages(ls, j) ==
    LET M == {i \in SectionBody(ls, j) :
                 FirstInOrder(ls[i]) = 2 /\ ~MarkerLine(ls[i])}
    IN  IF M = {} THEN 0 ELSE search("Messages Sent: ", ls[SetMax(M)])[1].n

\* the sections that end with messages, and the i-th of them in file order
Kept(ls) == {j \in Starts(ls) : LastMessages(ls, j) > 0}
Nth(S, i) == CHOOSE j \in S : Cardinality({x \in S : x <= j}) = i

\* what finalizing the record in progress makes of the node list
Finalized ==
    IF current_stats # <<>> /\ current_stats[1].messages_sent > 0
    THEN Append(node_stats, current_stats[1])
    ELSE node_stats

(***************************************************************************)
(* C19.  The life of a node section.  A node-start line read in            *)
(* finish-section mode first finalizes the record in progress (appended    *)
(* when its messages_sent is above 0, dropped otherwise) and then starts a *)
(* record with the new id and the defaults; the end of the log finalizes   *)
(* the last record the same way; the node list only grows, by one record   *)
(* at a time.  The returned node list holds, in the order of their         *)
(* node-start lines, exactly the sections that end with non-zero messages, *)
(* each once, and is never longer than the number of node-start lines.     *)
(***************************************************************************)
C19_SectionLifecycle ==
    [][/\ (FinishModeLine /\ "Node statistics:" \in Shapes(lines[idx])) =>
            /\ node_stats' = Finalized
            /\ current_stats' =
                 <<[node_id |-> search("Node statistics:", lines[idx])[1].n,
                    messages_sent |-> 0, rounds_completed |-> 0,
                    final_state |-> "", is_leader |-> FALSE]>>
       /\ (pc = "scan" /\ pc' = "scan") =>
            \/ node_stats' = node_stats
            \/ /\ Len(node_stats') = Len(node_stats) + 1
               /\ SubSeq(node_stats', 1, Len(node_stats)) = node_stats
       /\ (pc = "scan" /\ idx > Len(lines)) =>
            LET ns == metrics'[which][1].node_stats
            IN  /\ ns = Finalized
                /\ Len(ns) = Cardinality(Kept(lines))
                /\ Len(ns) <= Cardinality(Starts(lines))
                /\ \A i \in 1..Len(ns) :
                     LET j == Nth(Kept(lines), i)
                     IN  /\ ns[i].node_id = search("Node statistics:", lines[j])[1].n
                         /\ ns[i].messages_sent = LastMessages(lines, j)
    ]_vars

\* of the sections of node 1 (two messages) and node 0 (no messages) the
\* node list holds the first only
C19_Witness ==
    /\ Parsed(1)
    /\ Log(1) = << <<Finish>>, <<NodeStart(1)>>, <<MessagesSent(2)>>,
                   <<NodeStart(0)>>, <<MessagesSent(0)>> >>
    /\ Len(Result(1).node_stats) = 1
    /\ Result(1).node_stats[1].node_id = 1
    /\ Result(1).node_stats[1].messages_sent = 2

(***************************************************************************)
(* Logs of up to MaxSections node sections whose lines give the messages,  *)
(* the rounds or mention a round in an informational line.                 *)
(***************************************************************************)
RoundLines ==
    { <<MessagesSent(0)>>, <<MessagesSent(2)>>,
      <<RoundsCompleted(1)>>, <<RoundsCompleted(2)>>,
      <<Info, RoundMention(3)>> }

RoundBodies ==
    {<<>>} \cup {<<a>> : a \in RoundLines}
           \cup {b \in RoundLines \X RoundLines : b[1] # b[2]}

RoundSections == {<<<<NodeStart(n)>>>> \o b : n \in 0..1, b \in RoundBodies}

InitRounds ==
    \/ EdgeRuns
    \/ \E ss \in SeqUpTo(RoundSections, MaxSections) :
           RunOn(<<<<Finish>>>> \o Concat(ss))

SpecRounds == InitRounds /\ [][Next]_vars

\* the number of the last line of the section that Rounds Completed
\* consumes, 0 without one
LastRounds(ls, j) ==
    LET R == {i \in SectionBody(ls, j) :
                 FirstInOrder(ls[i]) = 3 /\ ~MarkerLine(ls[i])}
    IN  IF R = {} THEN 0 ELSE search("Rounds Completed: ", ls[SetMax(R)])[1].n

(***************************************************************************)
(* C20.  total_rounds is the highest rounds_completed of the records of    *)
(* the returned node list, 0 when the list is empty: the highest Rounds    *)
(* Completed number among the sections that end with non-zero messages.    *)
(* The Rounds Completed line of a discarded section adds nothing, and      *)
(* neither does a line that mentions a round.                              *)
(***************************************************************************)
C20_TotalRoundsIsMaxOfRetained ==
    \A k \in 1..2 : Parsed(k) =>
        LET ns == Result(k).node_stats
        IN  /\ Result(k).total_rounds =
                 SetMax({0} \cup {ns[i].rounds_completed : i \in 1..Len(ns)})
            /\ Result(k).total_rounds =
                 SetMax({0} \cup {LastRounds(Log(k), j) : j \in Kept(Log(k))})

\* a discarded section with two rounds and a line that mentions round 3,
\* then a retained section with one round: one round in total
C20_Witness ==
    /\ Parsed(1)
    /\ Log(1) = << <<Finish>>,
                   <<NodeStart(0)>>, <<RoundsCompleted(2)>>, <<Info, RoundMention(3)>>,
                   <<NodeStart(1)>>, <<MessagesSent(2)>>, <<RoundsCompleted(1)>> >>
    /\ Len(Result(1).node_stats) = 1
    /\ Result(1).total_rounds = 1
    /\ 3 \in DOMAIN Result(1).round_details

\* the flag of the record says what its state label says
Consistent(rec) == rec.is_leader <=> (rec.final_state = "LEADER")

AllConsistent(ns) == \A i \in 1..Len(ns) : Consistent(ns[i])

(***************************************************************************)
(* C21.  After any sequence of lines, the record in progress and every     *)
(* record of the node list, during the loop and in the returned metrics,   *)
(* has is_leader set exactly when its final_state is "LEADER".             *)
(***************************************************************************)
C21_FlagMatchesState ==
    /\ pc = "scan" =>
          /\ current_stats # <<>> => Consistent(current_stats[1])
          /\ AllConsistent(node_stats)
    /\ \A k \in 1..2 : Parsed(k) => AllConsistent(Result(k).node_stats)

\* a Final State line said PASSIVE, the Is Leader line after it said YES:
\* the record in progress is a leader with the label LEADER
C21_Witness ==
    /\ pc = "scan" /\ idx = 5
    /\ lines = << <<Finish>>, <<NodeStart(0)>>, <<FinalState("PASSIVE")>>,
                  <<IsLeader("YES")>> >>
    /\ current_stats # <<>>
    /\ current_stats[1].is_leader
    /\ current_stats[1].final_state = "LEADER"

\* the per-node message column of run k in the printed table
MessageColumn(k) ==
    [r \in 1..Len(report[1].rows) |->
        IF k = 1 THEN report[1].rows[r].arb_msg ELSE report[1].rows[r].anon_msg]

(***************************************************************************)
(* C22.  In the printed report every record of either run's node list is   *)
(* shown in one row of the per-node table, the row of its node_id with its *)
(* messages, and the message column of a run adds up to that run's         *)
(* total_messages.                                                         *)
(***************************************************************************)
C22_EveryRecordInARow ==
    report # <<>> =>
        \A k \in 1..2 :
            LET ns  == Result(k).node_stats
                col == MessageColumn(k)
            IN  /\ \A i \in 1..Len(ns) :
                     \E r \in 1..Len(col) :
                        /\ report[1].rows[r].node = ns[i].node_id
                        /\ col[r] = ns[i].messages_sent
                /\ SumSet(1..Len(col), col) = Result(k).total_messages

====
